---- MODULE Spec2Model ----
(***************************************************************************)
(* Model of evojax/mnist_cnn.py: the epoch driver (epoch_step), the metric *)
(* aggregation (calc_and_log_metrics) and the training loop with early     *)
(* stopping (run_mnist_training).                                          *)
(*                                                                         *)
(* Abstractions.  A model state (flax TrainState) is the number of         *)
(* optimizer updates applied to it; None is the Python None.  The metrics  *)
(* of one batch come from compute_metrics on the network's output: the     *)
(* model draws them from BatchMetrics.  Floats are exact rationals         *)
(* [num, den]; NaN is the pair with den = 0.  A PRNG key is a number and   *)
(* jax.random.permutation a fixed bijection chosen by the key.             *)
(*                                                                         *)
(* The Masking task of evojax/task/masking.py is modelled beside it: its   *)
(* fixed pool, reset and step over a batch of parallel instances.  An      *)
(* image is its position in the pool; the frozen CNN's prediction for an   *)
(* image under a mask is a fixed function of the two.                      *)
(***************************************************************************)
EXTENDS Integers, Sequences, FiniteSets, TLC

\* ------------------------------------------------------------------ bounds
MaxEpochs == 4
MaxDatasetSize == 5
MaxBatchSize == 2
MaxSeed == 1
NumKeys == 3
PoolSize == 3
MaxInstances == 2
MaxMask == 1

\* --------------------------------------------------------------- constants
None == -1

Splits == {"train", "validation", "test"}

\* the dataset names of evojax.datasets, in the dataset holder's order
dataset_names == <<"digit", "fashion">>

Names == {dataset_names[i] : i \in 1..Len(dataset_names)}

\* ---------------------------------------------------------------- numbers
RECURSIVE GCD(_, _)
GCD(a, b) == IF b = 0 THEN a ELSE GCD(b, a % b)

Rat(n, d) == LET g == GCD(n, d) IN [num |-> n \div g, den |-> d \div g]

NaN == [num |-> 0, den |-> 0]
Zero == Rat(0, 1)
One == Rat(1, 1)

IsNaN(x) == x.den = 0

Add(x, y) ==
    IF IsNaN(x) \/ IsNaN(y) THEN NaN
    ELSE Rat(x.num * y.den + y.num * x.den, x.den * y.den)

\* Python's x > y on floats: False whenever either side is NaN
Gt(x, y) == ~IsNaN(x) /\ ~IsNaN(y) /\ x.num * y.den > y.num * x.den

RECURSIVE Sum(_)
Sum(xs) == IF xs = <<>> THEN Zero ELSE Add(Head(xs), Sum(Tail(xs)))

\* np.mean of a list: NaN (with a warning, no exception) for the empty list
np_mean(xs) ==
    IF xs = <<>> THEN NaN
    ELSE LET s == Sum(xs) IN
         IF IsNaN(s) THEN NaN ELSE Rat(s.num, s.den * Len(xs))

\* ------------------------------------------------------------ the batches
\* the metrics compute_metrics can give for one batch
BatchMetrics == {[loss |-> One, accuracy |-> Zero], [loss |-> Zero, accuracy |-> One]}

\* jax.random.split(rng): the carried key and the derived key
random_split(rng) == <<(2 * rng + 1) % NumKeys, (2 * rng + 2) % NumKeys>>

\* jax.random.permutation(rng, n): a permutation of 0..n-1
permutation(rng, n) == [i \in 1..n |-> (i - 1 + rng) % n]

steps_per_epoch_ceil(ds_size, batch_size) == (ds_size + batch_size - 1) \div batch_size

steps_per_epoch(ds_size, batch_size) == ds_size \div batch_size

Min(a, b) == IF a < b THEN a ELSE b

\* perms[:steps * batch_size].reshape((steps, batch_size))
reshape(perms, steps, batch_size) ==
    LET kept == SubSeq(perms, 1, Min(Len(perms), steps * batch_size)) IN
    [b \in 1..steps |->
        SubSeq(kept, (b - 1) * batch_size + 1, Min(Len(kept), b * batch_size))]

train_step(s) == s + 1

eval_step_updates(s) == s + 1

\* lines 65-86: eval_step returns the state it was given
eval_step(s) == s

step_func(test, s) == IF test THEN eval_step(s) ELSE train_step(s)

\* the state after the step function has run on n batches in turn
RECURSIVE run_batches(_, _, _)
run_batches(test, s, n) ==
    IF n = 0 THEN s ELSE run_batches(test, step_func(test, s), n - 1)

\* ------------------------------------------------------------------ state
VARIABLES
    pc,                     \* where run_mnist_training is
    eval_only, early_stopping, num_epochs, cnn_batch_size,   \* its arguments
    dataset_holder,         \* split -> dataset name -> number of samples
    metrics_holder,         \* split -> dataset name (if written) -> metrics
    state, rng, input_rng, epoch,
    current_train_accuracy, current_validation_accuracy, current_test_accuracy,
    previous_state, previous_test_accuracy, previous_validation_accuracy,
    wandb_log,              \* what the last wandb.log of the loop emitted
    result,                 \* what run_mnist_training returned
    exception,              \* what it raised
    es_split, es_test, es_rng, es_state, es_todo,   \* the running epoch_step
    es_perms,               \* dataset name -> the batches it was cut into
    es_batch_metrics,       \* dataset name -> the metrics of its batches
    steps_invoked,          \* step-function calls made during the run
    hist,                   \* the epochs completed under early stopping
    task_pc,                \* where the Masking task is
    task_test, task_batch_size,      \* Masking's arguments test, batch_size
    image_data, class_labels, dataset_labels,   \* the task's fixed pool
    task_keys,              \* the keys of the last reset, one per instance
    task_state,             \* the State of each instance after reset
    task_out                \* what the last step returned

cfg_vars == <<eval_only, early_stopping, num_epochs, cnn_batch_size, dataset_holder>>

cur_vars == <<current_train_accuracy, current_validation_accuracy, current_test_accuracy>>

prev_vars == <<previous_state, previous_test_accuracy, previous_validation_accuracy>>

es_vars == <<es_split, es_test, es_rng, es_state, es_todo, es_perms, es_batch_metrics>>

train_vars == <<pc, cfg_vars, metrics_holder, state, rng, input_rng, epoch, cur_vars,
                prev_vars, wandb_log, result, exception, es_vars, steps_invoked, hist>>

pool_vars == <<image_data, class_labels, dataset_labels>>

task_vars == <<task_pc, task_test, task_batch_size, pool_vars, task_keys, task_state,
               task_out>>

vars == <<train_vars, task_vars>>

NoResult == [state |-> None, acc |-> NaN, returned |-> FALSE]

Returned(s, a) == [state |-> s, acc |-> a, returned |-> TRUE]

EmptyFn == [n \in {} |-> Zero]

\* the values of a mapping over dataset names, in the names' order
RECURSIVE Values(_, _, _)
Values(f, order, field) ==
    IF order = <<>> THEN <<>>
    ELSE IF Head(order) \in DOMAIN f
         THEN <<f[Head(order)][field]>> \o Values(f, Tail(order), field)
         ELSE Values(f, Tail(order), field)

\* np.mean([i['accuracy'] for i in dataset_class.metrics_holder.values()])
MeanAccuracy(split) == np_mean(Values(metrics_holder[split], dataset_names, "accuracy"))

MeanLoss(split) == np_mean(Values(metrics_holder[split], dataset_names, "loss"))

\* calc_and_log_metrics(dataset_class, ...): the value it returns.  Its
\* per-dataset wandb.log runs only for the bundle whose split is 'test'.
calc_and_log_metrics(split) == MeanAccuracy(split)

\* a metrics holder left by an earlier run over the same bundles
StaleHolder == [n \in Names |-> [loss |-> One, accuracy |-> Zero]]

\* the state after construction: arguments resolved, bundles loaded, nothing
\* run yet.  previous_* and current_* hold the values of line 233.
InitWith(sizes, batch_sizes, epochs, seeds, holders) ==
    /\ pc = "start"
    /\ eval_only \in BOOLEAN
    /\ early_stopping \in BOOLEAN
    /\ num_epochs \in epochs
    /\ cnn_batch_size \in batch_sizes
    /\ \E sz \in [Names -> sizes] : dataset_holder = [s \in Splits |-> sz]
    /\ \E h \in holders : metrics_holder = [s \in Splits |-> h]
    /\ state = 0
    /\ rng \in seeds
    /\ input_rng = 0
    /\ epoch = 0
    /\ current_train_accuracy = Zero
    /\ current_validation_accuracy = Zero
    /\ current_test_accuracy = Zero
    /\ previous_state = None
    /\ previous_test_accuracy = Zero
    /\ previous_validation_accuracy = Zero
    /\ wandb_log = <<>>
    /\ result = NoResult
    /\ exception = "none"
    /\ es_split = "none"
    /\ es_test = FALSE
    /\ es_rng = 0
    /\ es_state = 0
    /\ es_todo = <<>>
    /\ es_perms = EmptyFn
    /\ es_batch_metrics = EmptyFn
    /\ steps_invoked = 0
    /\ hist = <<>>

\* no Masking task has been constructed
TaskIdle ==
    /\ task_pc = "idle"
    /\ task_test = FALSE
    /\ task_batch_size = 0
    /\ image_data = <<>>
    /\ class_labels = <<>>
    /\ dataset_labels = <<>>
    /\ task_keys = <<>>
    /\ task_state = <<>>
    /\ task_out = <<>>

\* the training loop: datasets of at most one batch, up to MaxEpochs epochs
Init ==
    /\ InitWith((MaxBatchSize - 1)..(MaxBatchSize + 1), {MaxBatchSize}, 0..MaxEpochs,
                {0}, {EmptyFn})
    /\ TaskIdle

\* the epoch driver: datasets of every size, fresh and reused bundles, one epoch
InitEpoch ==
    /\ InitWith(1..MaxDatasetSize, MaxBatchSize..(MaxBatchSize + 1), {1}, 0..MaxSeed,
                {EmptyFn, StaleHolder})
    /\ TaskIdle

\* ------------------------------------------------------------- epoch_step
\* the call epoch_step(test, state, bundle of split, batch_size, key)
CallEpochStep(split, test, key, s) ==
    /\ pc' = "epoch_step"
    /\ es_split' = split
    /\ es_test' = test
    /\ es_rng' = key
    /\ es_state' = s
    /\ es_todo' = dataset_names
    /\ es_perms' = EmptyFn
    /\ es_batch_metrics' = EmptyFn

EpochStepDone(split) == pc = "epoch_step" /\ es_todo = <<>> /\ es_split = split

ds_name == Head(es_todo)

ds_size == dataset_holder[es_split][ds_name]

perms == reshape(permutation(es_rng, ds_size),
                 steps_per_epoch(ds_size, cnn_batch_size), cnn_batch_size)

epoch_metrics_sum(batch_metrics) ==
    [loss |-> Sum([b \in 1..Len(batch_metrics) |-> batch_metrics[b].loss]),
     accuracy |-> Sum([b \in 1..Len(batch_metrics) |-> batch_metrics[b].accuracy])]

\* lines 154-157: the mean of each metric across the batches
epoch_metrics_np(batch_metrics) ==
    [loss |-> np_mean([b \in 1..Len(batch_metrics) |-> batch_metrics[b].loss]),
     accuracy |-> np_mean([b \in 1..Len(batch_metrics) |-> batch_metrics[b].accuracy])]

Put(f, k, v) == [n \in DOMAIN f \cup {k} |-> IF n = k THEN v ELSE f[n]]

\* one iteration of the loop over the datasets: every batch of the dataset is
\* run through the step function and the means are written to the holder
EpochStepDataset ==
    /\ pc = "epoch_step"
    /\ es_todo # <<>>
    /\ Len(perms) > 0
    /\ \E batch_metrics \in [1..Len(perms) -> BatchMetrics] :
         /\ es_batch_metrics' = Put(es_batch_metrics, ds_name, batch_metrics)
         /\ metrics_holder' = [metrics_holder EXCEPT ![es_split] =
                Put(metrics_holder[es_split], ds_name, epoch_metrics_np(batch_metrics))]
    /\ es_perms' = Put(es_perms, ds_name, perms)
    /\ es_state' = run_batches(es_test, es_state, Len(perms))
    /\ steps_invoked' = steps_invoked + Len(perms)
    /\ es_todo' = Tail(es_todo)
    /\ UNCHANGED <<task_vars, pc, cfg_vars, state, rng, input_rng, epoch, cur_vars, prev_vars,
                   wandb_log, result, exception, es_split, es_test, es_rng, hist>>

\* the same iteration for a dataset smaller than the batch size: no batch,
\* batch_metrics_np is empty and batch_metrics_np[0] raises IndexError
EpochStepIndexError ==
    /\ pc = "epoch_step"
    /\ es_todo # <<>>
    /\ Len(perms) = 0
    /\ es_perms' = Put(es_perms, ds_name, perms)
    /\ es_batch_metrics' = Put(es_batch_metrics, ds_name, <<>>)
    /\ pc' = "raised"
    /\ exception' = "IndexError"
    /\ UNCHANGED <<task_vars, cfg_vars, metrics_holder, state, rng, input_rng, epoch, cur_vars,
                   prev_vars, wandb_log, result, es_split, es_test, es_rng, es_state,
                   es_todo, steps_invoked, hist>>

\* ----------------------------------------------------- run_mnist_training
\* lines 218-228: the evaluation-only run calls epoch_step on the test bundle
EvalOnly ==
    /\ pc = "start"
    /\ eval_only
    /\ CallEpochStep("test", TRUE, rng, state)
    /\ UNCHANGED <<task_vars, cfg_vars, metrics_holder, state, rng, input_rng, epoch, cur_vars,
                   prev_vars, wandb_log, result, exception, steps_invoked, hist>>

\* lines 219 and 230: epoch_step returns; np.mean(...) is a numpy scalar and
\* indexing it with [0] raises IndexError
EvalOnlyReturn ==
    /\ EpochStepDone("test")
    /\ eval_only
    /\ state' = es_state
    /\ pc' = "raised"
    /\ exception' = "IndexError"
    /\ UNCHANGED <<task_vars, cfg_vars, metrics_holder, rng, input_rng, epoch, cur_vars, prev_vars,
                   wandb_log, result, es_vars, steps_invoked, hist>>

\* lines 232-233
BeginTraining ==
    /\ pc = "start"
    /\ ~eval_only
    /\ pc' = "loop"
    /\ previous_state' = None
    /\ previous_test_accuracy' = Zero
    /\ previous_validation_accuracy' = Zero
    /\ current_test_accuracy' = Zero
    /\ UNCHANGED <<task_vars, cfg_vars, metrics_holder, state, rng, input_rng, epoch,
                   current_train_accuracy, current_validation_accuracy, wandb_log,
                   result, exception, es_vars, steps_invoked, hist>>

\* lines 234-253: the next epoch draws its key and trains over the train bundle
NextEpoch ==
    /\ pc = "loop"
    /\ epoch < num_epochs
    /\ epoch' = epoch + 1
    /\ rng' = random_split(rng)[1]
    /\ input_rng' = random_split(rng)[2]
    /\ CallEpochStep("train", FALSE, random_split(rng)[2], state)
    /\ UNCHANGED <<task_vars, cfg_vars, metrics_holder, state, cur_vars, prev_vars, wandb_log,
                   result, exception, steps_invoked, hist>>

\* lines 244, 255-267: the train pass returns, the first aggregation is taken
\* (of validation_dataset_class) and the validation pass starts
AggregateTrain ==
    /\ EpochStepDone("train")
    /\ state' = es_state
    /\ current_train_accuracy' = calc_and_log_metrics("validation")
    /\ CallEpochStep("validation", TRUE, input_rng, es_state)
    /\ UNCHANGED <<task_vars, cfg_vars, metrics_holder, rng, input_rng, epoch,
                   current_validation_accuracy, current_test_accuracy, prev_vars,
                   wandb_log, result, exception, steps_invoked, hist>>

\* lines 258, 269-281: the validation pass returns, is aggregated, and the test
\* pass starts
AggregateValidation ==
    /\ EpochStepDone("validation")
    /\ ~eval_only
    /\ state' = es_state
    /\ current_validation_accuracy' = calc_and_log_metrics("validation")
    /\ CallEpochStep("test", TRUE, input_rng, es_state)
    /\ UNCHANGED <<task_vars, cfg_vars, metrics_holder, rng, input_rng, epoch,
                   current_train_accuracy, current_test_accuracy, prev_vars,
                   wandb_log, result, exception, steps_invoked, hist>>

\* lines 272, 283-287: the test pass returns, the third aggregation is taken
\* (of validation_dataset_class) and the three accuracies are emitted
AggregateTest ==
    /\ EpochStepDone("test")
    /\ ~eval_only
    /\ state' = es_state
    /\ current_test_accuracy' = calc_and_log_metrics("validation")
    /\ wandb_log' = <<[train |-> current_train_accuracy,
                       validation |-> current_validation_accuracy,
                       test |-> current_test_accuracy']>>
    /\ UNCHANGED <<task_vars, cfg_vars, metrics_holder, rng, input_rng, epoch,
                   current_train_accuracy, current_validation_accuracy, es_vars,
                   exception, steps_invoked>>

\* the record of a completed epoch: the accuracies its validation and test
\* passes left in their own holders, and the state it produced
EpochRecord == [epoch |-> epoch, validation |-> MeanAccuracy("validation"),
                test |-> MeanAccuracy("test"), state |-> es_state]

ImprovedOrEqual(current, previous) == Gt(current, previous) \/ current = previous

\* line 290: current_validation_accuracy > previous_validation_accuracy
Improved(current, previous) == Gt(current, previous)

EarlyStopReturnCurrent == Returned(es_state, current_validation_accuracy)

\* line 296: return previous_state, previous_test_accuracy
EarlyStopReturn == Returned(previous_state, previous_test_accuracy)

\* lines 290-293: validation accuracy improved, the epoch is recorded as best
RecordBest ==
    /\ AggregateTest
    /\ early_stopping
    /\ Improved(current_validation_accuracy, previous_validation_accuracy)
    /\ previous_validation_accuracy' = current_validation_accuracy
    /\ previous_test_accuracy' = current_test_accuracy'
    /\ previous_state' = state'
    /\ hist' = Append(hist, EpochRecord)
    /\ pc' = "loop"
    /\ UNCHANGED result

\* lines 294-296: no improvement, the run returns the recorded best
StopEarly ==
    /\ AggregateTest
    /\ early_stopping
    /\ ~Improved(current_validation_accuracy, previous_validation_accuracy)
    /\ result' = EarlyStopReturn
    /\ hist' = Append(hist, EpochRecord)
    /\ pc' = "returned"
    /\ UNCHANGED prev_vars

\* lines 297-298: early stopping is off
Continue ==
    /\ AggregateTest
    /\ ~early_stopping
    /\ pc' = "loop"
    /\ UNCHANGED <<prev_vars, result, hist>>

\* line 300: the loop is exhausted
LoopExit ==
    /\ pc = "loop"
    /\ epoch >= num_epochs
    /\ result' = Returned(state, current_test_accuracy)
    /\ pc' = "returned"
    /\ UNCHANGED <<task_vars, cfg_vars, metrics_holder, state, rng, input_rng, epoch, cur_vars,
                   prev_vars, wandb_log, exception, es_vars, steps_invoked, hist>>

Next ==
    \/ EvalOnly
    \/ EvalOnlyReturn
    \/ BeginTraining
    \/ NextEpoch
    \/ EpochStepDataset
    \/ EpochStepIndexError
    \/ AggregateTrain
    \/ AggregateValidation
    \/ RecordBest
    \/ StopEarly
    \/ Continue
    \/ LoopExit

Spec == Init /\ [][Next]_vars

SpecEpoch == InitEpoch /\ [][Next]_vars

\* ----------------------------------------------------------- Masking task
Classes == {0, 1}

DatasetLabels == {0, 1}

Masks == 0..MaxMask

Keys == 0..(NumKeys - 1)

\* jnp.take(a, indices=ix, axis=0), ix holding positions counted from 0
take(a, ix) == [j \in 1..Len(ix) |-> a[ix[j] + 1]]

\* random.choice(key, a, shape=(shape,), replace=False): the head of a
\* permutation of 0..a-1
choice(key, a, shape) == SubSeq(permutation(key, a), 1, shape)

\* lines 38-47
sample_batch(key, data, labels, origins, batch_size) ==
    LET ix == choice(key, Len(data), batch_size) IN
    <<take(data, ix), take(labels, ix), take(origins, ix)>>

\* lines 93-96: the batch is sampled, and the State is built from the batch's
\* class labels and from the pool's dataset_labels and image_data
reset_fn(key) ==
    LET batch == sample_batch(key, image_data, class_labels, dataset_labels,
                              task_batch_size)
    IN  [obs |-> dataset_labels, labels |-> batch[2], image_data |-> image_data]

\* argmax of CNN().apply(params, image, action) for one image
predicted_class(image, action) == (image + action) % Cardinality(Classes)

\* jax broadcasting of two leading dimensions
Broadcastable(m, n) == m = n \/ m = 1 \/ n = 1

At(a, k) == IF Len(a) = 1 THEN a[1] ELSE a[k]

Max(a, b) == IF a > b THEN a ELSE b

\* predicted_class == target, elementwise after broadcasting
Correct(st, action) ==
    [k \in 1..Max(Len(st.image_data), Len(st.labels)) |->
        predicted_class(At(st.image_data, k), action) = At(st.labels, k)]

\* lines 55-57
accuracy(st, action) ==
    LET c == Correct(st, action) IN
    np_mean([k \in 1..Len(c) |-> IF c[k] THEN One ELSE Zero])

\* lines 50-52, for log-probabilities that are 0 at the predicted class and
\* -1 at every other class
loss(st, action) ==
    LET c == Correct(st, action) IN
    np_mean([k \in 1..Len(c) |-> IF c[k] THEN Zero ELSE One])

Neg(x) == [num |-> 0 - x.num, den |-> x.den]

\* lines 111-114
reward_fn(st, action) ==
    IF task_test THEN accuracy(st, action) ELSE Neg(loss(st, action))

\* lines 99-115
step_fn(st, action) == [state |-> st, reward |-> reward_fn(st, action), done |-> 1]

\* lines 63-91: the task after construction, with its fixed pool
InitMasking ==
    /\ InitWith({1}, {1}, {0}, {0}, {EmptyFn})
    /\ ~eval_only
    /\ ~early_stopping
    /\ task_pc = "constructed"
    /\ task_test \in BOOLEAN
    /\ task_batch_size \in 1..PoolSize
    /\ image_data = [i \in 1..PoolSize |-> i]
    /\ class_labels \in [1..PoolSize -> Classes]
    /\ dataset_labels \in [1..PoolSize -> DatasetLabels]
    /\ task_keys = <<>>
    /\ task_state = <<>>
    /\ task_out = <<>>

\* lines 118-119: reset over a batch of keys, one per parallel instance
Reset ==
    /\ task_pc \in {"constructed", "reset", "stepped"}
    /\ \E n \in 1..MaxInstances : \E keys \in [1..n -> Keys] :
         /\ task_keys' = keys
         /\ task_state' = [i \in 1..n |-> reset_fn(keys[i])]
    /\ task_out' = <<>>
    /\ task_pc' = "reset"
    /\ UNCHANGED <<train_vars, task_test, task_batch_size, pool_vars>>

StepShapesOk ==
    Broadcastable(Len(task_state[1].image_data), Len(task_state[1].labels))

\* lines 121-124: step over the instances' states and one mask per instance
Step ==
    /\ task_pc = "reset"
    /\ StepShapesOk
    /\ \E action \in [1..Len(task_state) -> Masks] :
         task_out' = <<[state |-> [i \in 1..Len(task_state) |->
                                      step_fn(task_state[i], action[i]).state],
                        reward |-> [i \in 1..Len(task_state) |->
                                      step_fn(task_state[i], action[i]).reward],
                        done |-> [i \in 1..Len(task_state) |->
                                      step_fn(task_state[i], action[i]).done],
                        action |-> action]>>
    /\ task_pc' = "stepped"
    /\ UNCHANGED <<train_vars, task_test, task_batch_size, pool_vars, task_keys,
                   task_state>>

\* the same call when the stored images and the stored labels differ in
\* number and do not broadcast: tracing step_fn raises
StepRaise ==
    /\ task_pc = "reset"
    /\ ~StepShapesOk
    /\ task_pc' = "step_raised"
    /\ UNCHANGED <<train_vars, task_test, task_batch_size, pool_vars, task_keys,
                   task_state, task_out>>

NextMasking ==
    \/ Reset
    \/ Step
    \/ StepRaise

SpecMasking == InitMasking /\ [][NextMasking]_vars

\* ----------------------------------------------------------------- claims
Terminated == pc \in {"returned", "raised"}

\* the best validation accuracy over the first i epochs of h, starting at 0
RECURSIVE BestVal(_, _)
BestVal(h, i) ==
    IF i = 0 THEN Zero
    ELSE IF Gt(h[i].validation, BestVal(h, i - 1)) THEN h[i].validation
         ELSE BestVal(h, i - 1)

\* epoch i of h improved strictly on every epoch before it
Improving(h, i) == Gt(h[i].validation, BestVal(h, i - 1))

\* the last strictly improving epoch before epoch k (0 if there is none)
LastImproving(h, k) ==
    LET js == {j \in 1..(k - 1) : Improving(h, j)} IN
    IF js = {} THEN 0 ELSE CHOOSE j \in js : \A i \in js : i <= j

\* Under early stopping the run stops at the first epoch that does not improve,
\* runs no epoch after it and returns the state recorded at the last improving
\* epoch (the part of C1 that does not depend on which holder is aggregated).
EarlyStopControl ==
    early_stopping =>
        \A k \in 1..Len(hist) :
            ~Improving(hist, k) =>
                /\ k = Len(hist)
                /\ epoch = k
                /\ pc = "returned"
                /\ LastImproving(hist, k) > 0 =>
                       result.state = hist[LastImproving(hist, k)].state

\* C1: with early stopping, the run stops at the first epoch k whose validation
\* accuracy is not strictly greater than the best so far, runs no epoch after
\* k, and returns the model state and the test accuracy of the last strictly
\* improving epoch before k.
C1_EarlyStopReturnsBestEpoch ==
    early_stopping =>
        \A k \in 1..Len(hist) :
            ~Improving(hist, k) =>
                /\ k = Len(hist)
                /\ epoch = k
                /\ pc = "returned"
                /\ LastImproving(hist, k) > 0 =>
                       /\ result.state = hist[LastImproving(hist, k)].state
                       /\ result.acc = hist[LastImproving(hist, k)].test

\* C2: after an epoch's three passes, each emitted accuracy (and the recorded
\* test accuracy) is the mean over the datasets of its own split's metrics
\* holder as written in that epoch.
C2_EmittedAccuraciesOwnSplit ==
    (pc \in {"loop", "returned"} /\ wandb_log # <<>>) =>
        /\ wandb_log[1].train = MeanAccuracy("train")
        /\ wandb_log[1].validation = MeanAccuracy("validation")
        /\ wandb_log[1].test = MeanAccuracy("test")
        /\ current_test_accuracy = MeanAccuracy("test")

\* C3: an evaluation-only run over a test bundle whose datasets all hold at
\* least one batch returns normally the unchanged model state and the mean
\* test accuracy, having run no training step.
C3_EvalOnlyReturnsTestAccuracy ==
    (/\ eval_only
     /\ Terminated
     /\ \A n \in Names : dataset_holder["test"][n] >= cnn_batch_size) =>
        /\ pc = "returned"
        /\ exception = "none"
        /\ result = Returned(0, MeanAccuracy("test"))
        /\ state = 0

\* C4: with early stopping, when the first epoch's validation accuracy is not
\* strictly greater than 0 the run does not raise and returns the sentinel: a
\* null model state and test accuracy 0.
C4_FirstEpochSentinel ==
    (early_stopping /\ hist # <<>> /\ ~Gt(hist[1].validation, Zero)) =>
        /\ pc = "returned"
        /\ exception = "none"
        /\ result = Returned(None, Zero)

C4_Witness ==
    /\ early_stopping
    /\ hist # <<>>
    /\ ~Gt(hist[1].validation, Zero)
    /\ pc = "returned"
    /\ state > 0

\* C5: without early stopping the run never ends early: it returns only after
\* exactly num_epochs epochs, with the live state of the last epoch and the
\* test accuracy of the last epoch.
C5_NoEarlyStopRunsAllEpochs ==
    (~early_stopping /\ ~eval_only /\ pc = "returned") =>
        /\ epoch = num_epochs
        /\ result.state = state
        /\ num_epochs > 0 => result.acc = MeanAccuracy("test")

\* Without early stopping the run returns only after num_epochs epochs, with
\* the live state (the part of C5 that does not depend on which holder is
\* aggregated).
NoEarlyStopControl ==
    (~early_stopping /\ ~eval_only /\ pc = "returned") =>
        /\ epoch = num_epochs
        /\ result.state = state
        /\ result.acc = current_test_accuracy
        /\ hist = <<>>

\* the largest validation accuracy of the epochs of h
MaxVal(h) == CHOOSE v \in {h[i].validation : i \in 1..Len(h)} :
                 \A i \in 1..Len(h) : ~Gt(h[i].validation, v)

\* C6: the recorded best (state, test accuracy, validation accuracy) changes
\* only at an epoch whose validation accuracy is strictly greater than the
\* recorded best; an equal or lower one never changes it; under early stopping
\* the recorded best validation accuracy is the maximum over the epochs
\* completed so far.
C6_BestOnlyOnStrictImprovement ==
    /\ [][prev_vars' # prev_vars =>
            /\ EpochStepDone("test")
            /\ Gt(MeanAccuracy("validation"), previous_validation_accuracy)
            /\ previous_validation_accuracy' = MeanAccuracy("validation")
            /\ previous_test_accuracy' = current_test_accuracy'
            /\ previous_state' = es_state]_vars
    /\ [][(EpochStepDone("test")
           /\ ~Gt(MeanAccuracy("validation"), previous_validation_accuracy)) =>
            prev_vars' = prev_vars]_vars
    /\ []((early_stopping /\ hist # <<>>) =>
            previous_validation_accuracy = MaxVal(hist))

C6_Witness ==
    /\ early_stopping
    /\ Len(hist) = 3
    /\ Gt(hist[2].validation, hist[1].validation)
    /\ Gt(hist[1].validation, Zero)
    /\ previous_validation_accuracy = hist[2].validation
    /\ previous_state = hist[2].state
    /\ pc = "returned"

\* the sample indices that the batches m use
Used(m) == UNION {{m[b][i] : i \in 1..Len(m[b])} : b \in 1..Len(m)}

\* C7: for a dataset of size D and batch size B, epoch_step runs the step
\* function on exactly D div B batches of exactly B samples each; the batches
\* are disjoint slices of one permutation of the sample indices, so no sample
\* is used twice and exactly D mod B samples are left out.
C7_BatchesPartitionPermutation ==
    /\ \A n \in DOMAIN es_perms :
         LET D == dataset_holder[es_split][n]
             B == cnn_batch_size
             m == es_perms[n]
         IN  /\ Len(m) = D \div B
             /\ Len(es_batch_metrics[n]) = D \div B
             /\ \A b \in 1..Len(m) : Len(m[b]) = B
             /\ Used(m) \subseteq 0..(D - 1)
             /\ Cardinality(Used(m)) = B * (D \div B)
             /\ Cardinality((0..(D - 1)) \ Used(m)) = D % B
    /\ (pc = "epoch_step" /\ es_todo = <<>>) => DOMAIN es_perms = Names

C7_Witness ==
    /\ pc = "epoch_step"
    /\ es_todo = <<>>
    /\ ~es_test
    /\ \E n \in Names :
         /\ dataset_holder[es_split][n] % cnn_batch_size # 0
         /\ Len(es_perms[n]) >= 2
         /\ Len(es_batch_metrics[n]) >= 2

\* the number of batches of ms whose metric field is 1
Ones(ms, field) == Cardinality({b \in 1..Len(ms) : ms[b][field] = One})

\* x is the mean of the metric field over the batches ms
IsMeanOf(x, ms, field) ==
    /\ Len(ms) > 0
    /\ ~IsNaN(x)
    /\ x.num * Len(ms) = Ones(ms, field) * x.den

\* C8: whenever an epoch_step call over a bundle completes, the bundle's
\* metrics holder has exactly one {loss, accuracy} entry for every dataset of
\* the dataset holder, each the mean over that dataset's batches in this call.
C8_HolderEntryPerDataset ==
    (pc = "epoch_step" /\ es_todo = <<>>) =>
        /\ DOMAIN metrics_holder[es_split] = DOMAIN dataset_holder[es_split]
        /\ \A n \in DOMAIN dataset_holder[es_split] :
             /\ DOMAIN metrics_holder[es_split][n] = {"loss", "accuracy"}
             /\ IsMeanOf(metrics_holder[es_split][n].loss, es_batch_metrics[n], "loss")
             /\ IsMeanOf(metrics_holder[es_split][n].accuracy, es_batch_metrics[n],
                         "accuracy")

C8_Witness ==
    /\ pc = "epoch_step"
    /\ es_todo = <<>>
    /\ es_split = "train"
    /\ metrics_holder["test"] = StaleHolder
    /\ \E n \in Names :
         /\ Len(es_batch_metrics[n]) = 2
         /\ dataset_holder["train"][n] % cnn_batch_size # 0
         /\ metrics_holder["train"][n].accuracy = Rat(1, 2)

\* the bundles the run goes over
UsedSplits ==
    IF eval_only THEN {"test"} ELSE IF num_epochs = 0 THEN {} ELSE Splits

\* C9: if the batch size is larger than the sample count of a dataset of a
\* bundle, the run ends in an error, and it does so before any training or
\* evaluation step is invoked and before any metrics-holder entry is written.
C9_AbortBeforeAnyStep ==
    (/\ Terminated
     /\ \E s \in UsedSplits : \E n \in Names : dataset_holder[s][n] < cnn_batch_size) =>
        /\ pc = "raised"
        /\ steps_invoked = 0
        /\ \A n \in DOMAIN es_batch_metrics : es_batch_metrics[n] = <<>>
        /\ state = 0

\* C10: no aggregation over an empty set of metrics yields a NaN that is
\* emitted as an aggregated accuracy or compared in the early-stopping
\* decision, the first aggregation of epoch 1 included.
C10_NoNaNAggregate ==
    /\ ~IsNaN(current_train_accuracy)
    /\ ~IsNaN(current_validation_accuracy)
    /\ ~IsNaN(current_test_accuracy)
    /\ \A i \in 1..Len(wandb_log) :
         /\ ~IsNaN(wandb_log[i].train)
         /\ ~IsNaN(wandb_log[i].validation)
         /\ ~IsNaN(wandb_log[i].test)

Draws(p, n) ==
    {ix \in [1..n -> 0..(p - 1)] : \A a, b \in 1..n : ix[a] = ix[b] => a = b}

\* The parts of C12 that hold: the class labels of every instance are those at
\* batch_size distinct positions of the pool, the positions the instance's key
\* selects, and equal keys give equal states.
ResetControl ==
    task_pc = "reset" =>
        \A i \in 1..Len(task_state) :
            /\ choice(task_keys[i], PoolSize, task_batch_size)
                   \in Draws(PoolSize, task_batch_size)
            /\ task_state[i].labels =
                   take(class_labels, choice(task_keys[i], PoolSize, task_batch_size))
            /\ \A j \in 1..Len(task_state) :
                   task_keys[i] = task_keys[j] => task_state[i] = task_state[j]

\* the pool is never modified
PoolFixed == [][pool_vars' = pool_vars]_vars

\* C12: for every parallel instance, reset draws batch_size distinct positions
\* of the pool and returns a state whose image data, class labels and
\* observation each hold exactly the batch_size entries at those positions,
\* all three aligned; equal keys give equal batches.
C12_ResetSamplesAlignedBatch ==
    task_pc = "reset" =>
        \A i \in 1..Len(task_state) :
            /\ \E ix \in Draws(PoolSize, task_batch_size) :
                 /\ task_state[i].image_data = take(image_data, ix)
                 /\ task_state[i].labels = take(class_labels, ix)
                 /\ task_state[i].obs = take(dataset_labels, ix)
            /\ \A j \in 1..Len(task_state) :
                   task_keys[i] = task_keys[j] => task_state[i] = task_state[j]

\* what a step over the instances' states returned is as C13 describes
StepReturnsAsClaimed ==
    /\ task_pc = "stepped"
    /\ Len(task_out) = 1
    /\ task_out[1].state = task_state
    /\ DOMAIN task_out[1].reward = 1..Len(task_state)
    /\ DOMAIN task_out[1].done = 1..Len(task_state)
    /\ \A i \in 1..Len(task_state) :
         /\ task_out[1].reward[i] =
                IF task_test
                THEN accuracy(task_state[i], task_out[1].action[i])
                ELSE Neg(loss(task_state[i], task_out[1].action[i]))
         /\ task_out[1].done[i] = 1

\* The part of C13 that holds: a step that returns, returns as claimed.
StepControl == task_pc = "stepped" => StepReturnsAsClaimed

\* C13: a step over the states of n parallel instances returns the states
\* unchanged, one reward per instance (negative loss in training mode,
\* accuracy in evaluation mode, of the instance's stored images against its
\* stored class labels) and a done signal that is true for every instance.
C13_StepRewardPerInstance ==
    task_pc \in {"stepped", "step_raised"} => StepReturnsAsClaimed
====
